---- MODULE Spec2Model ----
(***************************************************************************)
(* Sensor wrappers of energy-benchmark: the PMT (RAPL) wrapper and the     *)
(* PowerSensor3 wrapper, and the snapshot delta arithmetic (Joules, Watt). *)
(*                                                                         *)
(* Two specifications:                                                     *)
(*   Spec       the handle operations: create, read, get_sensor_name of    *)
(*              both wrappers against a metered device;                    *)
(*   DeltaSpec  the pure delta functions: two snapshots drawn from bounded *)
(*              sets, then Joules / Watt / watts / calculate_watts applied *)
(*              with a channel selector.                                   *)
(*                                                                         *)
(* A C++ double is modelled as a binary floating-point number with         *)
(* Precision significand bits, round-to-nearest-even, in units of the      *)
(* smallest quantum, plus +inf, -inf and NaN for division by zero.         *)
(***************************************************************************)
EXTENDS Integers, Sequences, FiniteSets, TLC

VARIABLES
    firstState,   \* DeltaSpec: the first (start) snapshot handed to the delta functions
    secondState,  \* DeltaSpec: the second (end) snapshot
    ret,          \* DeltaSpec: outcome of the last delta call
    pmt,          \* Spec: the PMT side: live backend instances, Read() calls made
    ps3,          \* Spec: the PowerSensor3 side: live sensors, read() and getPairName() calls
    clock,        \* Spec: the device's monotonic clock
    energy,       \* Spec: the device's cumulative joule counters, one per channel
    calls,        \* Spec: number of wrapper calls made so far
    out           \* Spec: outcome of the last wrapper call

vars == <<firstState, secondState, ret, pmt, ps3, clock, energy, calls, out>>

----------------------------------------------------------------------------
(* Bounds *)

MaxChannels == 2    \* snapshots have 1..MaxChannels channels
Precision == 3      \* significand bits of the modelled double
MaxTime == 2        \* snapshot timestamps are 0..MaxTime
MaxClock == 2       \* the device clock stops advancing here
MaxCalls == 3       \* wrapper calls per behaviour of Spec

----------------------------------------------------------------------------
(* Floating point *)

Abs(x) == IF x < 0 THEN -x ELSE x

Sign(x) == IF x < 0 THEN -1 ELSE 1

RECURSIVE Pow2(_)
Pow2(n) == IF n = 0 THEN 1 ELSE 2 * Pow2(n - 1)

\* spacing of the representable numbers around magnitude m
RECURSIVE Ulp(_)
Ulp(m) == IF m < Pow2(Precision) THEN 1 ELSE 2 * Ulp(m \div 2)

\* n/d (n >= 0, d > 0) rounded to the nearest representable number, ties to even
RoundRat(n, d) ==
    LET u == Ulp(n \div d)
        k == n \div (d * u)
        r == n % (d * u)
    IN  IF 2 * r < d * u THEN k * u
        ELSE IF 2 * r > d * u THEN (k + 1) * u
        ELSE IF k % 2 = 0 THEN k * u ELSE (k + 1) * u

Round(x) == Sign(x) * RoundRat(Abs(x), 1)

\* double + double and double - double on finite values
FAdd(x, y) == Round(x + y)

FSub(x, y) == Round(x - y)

\* a double result: cls is "finite", "inf", "-inf" or "nan"; val is meaningful when finite
Finite(v) == [cls |-> "finite", val |-> v]

\* double / double, x and y finite
FDiv(x, y) ==
    IF y = 0
    THEN IF x > 0 THEN [cls |-> "inf", val |-> 0]
         ELSE IF x < 0 THEN [cls |-> "-inf", val |-> 0]
         ELSE [cls |-> "nan", val |-> 0]
    ELSE Finite(Sign(x) * Sign(y) * RoundRat(Abs(x), Abs(y)))

----------------------------------------------------------------------------
(* Snapshots (State) *)

ChannelNames == <<"pkg", "dram", "psys", "uncore">>

\* cumulative joule readings a channel can show: a small one and one just past
\* the range where every integer is representable (both are representable)
JouleValues == {1, Pow2(Precision) + 2}

Timestamps == 0 .. MaxTime

SeqsOfLen(S, n) == [1 .. n -> S]

JouleSeqs == UNION {SeqsOfLen(JouleValues, n) : n \in 1 .. MaxChannels}

States == [joules : JouleSeqs, timestamp : Timestamps]

NrMeasurements(s) == Len(s.joules)

\* what an out-of-range read of a channel can yield when it yields a number
Garbage == {0, 1}

\* State::joules(i): the reading of channel i (0-based).  Out of range the
\* access is undefined: it yields some number, or the call does not return.
StateJoules(s, i) ==
    IF i >= 0 /\ i < NrMeasurements(s)
    THEN {[ok |-> TRUE, v |-> s.joules[i + 1]]}
    ELSE {[ok |-> TRUE, v |-> g] : g \in Garbage} \cup {[ok |-> FALSE, v |-> 0]}

\* State::name(i), with the same out-of-range behaviour
StateName(names, i) ==
    IF i >= 0 /\ i < Len(names)
    THEN {[ok |-> TRUE, v |-> names[i + 1]]}
    ELSE {[ok |-> TRUE, v |-> "<garbage>"], [ok |-> FALSE, v |-> ""]}

\* PMT::seconds(first, second)
seconds(first, second) == second.timestamp - first.timestamp

----------------------------------------------------------------------------
(* Delta engine: src/sensors/pmt/src/wrapper/wrapper.cc *)

\* channel selectors tried: two negative ones, every index in range of some
\* snapshot, and the first index past the largest snapshot
PairIDs == {-5, -1} \cup (0 .. MaxChannels)

\* outcome of a delta call.  kind: "value" (a double is returned), "error" (an
\* exception reaches the caller), "crash" (an out-of-range access did not
\* return).  dropped: a runtime_error object was constructed and discarded.
\* idxFirst/idxSecond: the channel indices read from each snapshot.
Value(d, dropped, iF, iS) ==
    [kind |-> "value", err |-> "", cls |-> d.cls, val |-> d.val,
     dropped |-> dropped, idxFirst |-> iF, idxSecond |-> iS]

Crash(dropped, iF, iS) ==
    [kind |-> "crash", err |-> "", cls |-> "", val |-> 0,
     dropped |-> dropped, idxFirst |-> iF, idxSecond |-> iS]

Error(e) ==
    [kind |-> "error", err |-> e, cls |-> "", val |-> 0,
     dropped |-> FALSE, idxFirst |-> {}, idxSecond |-> {}]

\* the summation loop stopping one channel early: i < NrMeasurements() - 1
RECURSIVE AddAll_stops_early(_, _, _)
AddAll_stops_early(joules, s, i) ==
    IF i < NrMeasurements(s) - 1
    THEN AddAll_stops_early(FAdd(joules, s.joules[i + 1]), s, i + 1)
    ELSE joules

\* for (i = 0; i < secondState.NrMeasurements(); i++) joules += secondState.joules(i);
RECURSIVE AddAll(_, _, _)
AddAll(joules, s, i) ==
    IF i < NrMeasurements(s) THEN AddAll(FAdd(joules, s.joules[i + 1]), s, i + 1)
    ELSE joules

\* the second loop adding instead of subtracting: joules += firstState.joules(i)
RECURSIVE SubAll_adds(_, _, _)
SubAll_adds(joules, s, i) ==
    IF i < NrMeasurements(s) THEN SubAll_adds(FAdd(joules, s.joules[i + 1]), s, i + 1)
    ELSE joules

\* for (i = 0; i < firstState.NrMeasurements(); i++) joules -= firstState.joules(i);
RECURSIVE SubAll(_, _, _)
SubAll(joules, s, i) ==
    IF i < NrMeasurements(s) THEN SubAll(FSub(joules, s.joules[i + 1]), s, i + 1)
    ELSE joules

\* Joules taking only pairID == -1 as the aggregate selector: every other
\* selector, the other negative ones included, indexes a single channel
Joules_only_minus_one(first, second, pairID) ==
    LET dropped == pairID > NrMeasurements(first)
    IN  IF pairID # -1
        THEN {IF a.ok /\ b.ok
              THEN Value(Finite(FSub(b.v, a.v)), dropped, {pairID}, {pairID})
              ELSE Crash(dropped, {pairID}, {pairID}) :
                  <<a, b>> \in StateJoules(first, pairID) \X StateJoules(second, pairID)}
        ELSE {Value(Finite(SubAll(AddAll(0, second, 0), first, 0)), dropped,
                    0 .. NrMeasurements(first) - 1, 0 .. NrMeasurements(second) - 1)}

\* The set of outcomes of Joules(firstState, secondState, pairID).
\* The bound check compares with firstState's count, with >, and only
\* constructs the runtime_error: nothing is thrown, control goes on.
Joules(first, second, pairID) ==
    LET dropped == pairID > NrMeasurements(first)
    IN  IF pairID >= 0
        THEN {IF a.ok /\ b.ok
              THEN Value(Finite(FSub(b.v, a.v)), dropped, {pairID}, {pairID})
              ELSE Crash(dropped, {pairID}, {pairID}) :
                  <<a, b>> \in StateJoules(first, pairID) \X StateJoules(second, pairID)}
        ELSE {Value(Finite(SubAll(AddAll(0, second, 0), first, 0)), dropped,
                    0 .. NrMeasurements(first) - 1, 0 .. NrMeasurements(second) - 1)}

\* Watt: Joules(...) / PMT::seconds(...), no check of the divisor
Watt(first, second, pairID) ==
    {IF j.kind = "value"
     THEN Value(FDiv(j.val, seconds(first, second)), j.dropped, j.idxFirst, j.idxSecond)
     ELSE j : j \in Joules(first, second, pairID)}

----------------------------------------------------------------------------
(* PowerSensor3 library (not part of the wrappers): its Watt, as the       *)
(* design describes the watts contract                                     *)

RECURSIVE ExactSum(_, _)
ExactSum(s, i) ==
    IF i < NrMeasurements(s) THEN s.joules[i + 1] + ExactSum(s, i + 1) ELSE 0

PowerSensor3_Watt(start, end, pairID) ==
    IF seconds(start, end) <= 0 THEN {Error("DivisionByNonPositiveInterval")}
    ELSE IF pairID >= NrMeasurements(end) THEN {Error("InvalidChannelIndex")}
    ELSE IF pairID >= 0
         THEN {Value(FDiv(FSub(end.joules[pairID + 1], start.joules[pairID + 1]),
                          seconds(start, end)), FALSE, {pairID}, {pairID})}
         ELSE {Value(FDiv(FSub(Round(ExactSum(end, 0)), Round(ExactSum(start, 0))),
                          seconds(start, end)), FALSE,
                     0 .. NrMeasurements(start) - 1, 0 .. NrMeasurements(end) - 1)}

----------------------------------------------------------------------------
(* DeltaSpec: one delta function applied once to two snapshots *)

Ret(op, pairID, o) ==
    [op |-> op, pairID |-> pairID, kind |-> o.kind, err |-> o.err, cls |-> o.cls,
     val |-> o.val, dropped |-> o.dropped, idxFirst |-> o.idxFirst,
     idxSecond |-> o.idxSecond]

NoRet == Ret("none", 0, [Error("") EXCEPT !.kind = "none"])

NoOut ==
    [op |-> "none", backend |-> "", tag |-> "", idx |-> 0, kind |-> "none",
     err |-> "", name |-> "", joules |-> <<>>, timestamp |-> 0]

HandleInit ==
    /\ pmt = [live |-> 0, reads |-> 0]
    /\ ps3 = [live |-> 0, reads |-> 0, lookups |-> 0]
    /\ clock = 0
    /\ energy = [i \in 1 .. MaxChannels |-> 0]
    /\ calls = 0
    /\ out = NoOut

handleVars == <<pmt, ps3, clock, energy, calls, out>>

DeltaInit ==
    /\ firstState \in States
    /\ secondState \in States
    /\ ret = NoRet
    /\ HandleInit

\* a direct call of Joules
CallJoules ==
    /\ ret.op = "none"
    /\ \E pairID \in PairIDs : \E o \in Joules(firstState, secondState, pairID) :
          /\ ret' = Ret("Joules", pairID, o)
          /\ UNCHANGED <<firstState, secondState, handleVars>>

\* a direct call of Watt
CallWatt ==
    /\ ret.op = "none"
    /\ \E pairID \in PairIDs : \E o \in Watt(firstState, secondState, pairID) :
          /\ ret' = Ret("Watt", pairID, o)
          /\ UNCHANGED <<firstState, secondState, handleVars>>

\* double watts(first, second, sensor_id) { return Watt(first, second, sensor_id); }
watts ==
    /\ ret.op = "none"
    /\ \E sensor_id \in PairIDs : \E o \in Watt(firstState, secondState, sensor_id) :
          /\ ret' = Ret("watts", sensor_id, o)
          /\ UNCHANGED <<firstState, secondState, handleVars>>

\* powersensor3_rs::calculate_watts: returns the library's Watt(start, end, pair_id).
\* Both snapshots are of one sensor, so they have the same number of pairs.
calculate_watts ==
    /\ ret.op = "none"
    /\ NrMeasurements(firstState) = NrMeasurements(secondState)
    /\ \E pair_id \in PairIDs : \E o \in PowerSensor3_Watt(firstState, secondState, pair_id) :
          /\ ret' = Ret("calculate_watts", pair_id, o)
          /\ UNCHANGED <<firstState, secondState, handleVars>>

DeltaNext == CallJoules \/ CallWatt \/ watts \/ calculate_watts

DeltaSpec == DeltaInit /\ [][DeltaNext]_vars

----------------------------------------------------------------------------
(* Spec: the handle operations of both wrappers *)

RAPL == "RAPL"

\* sensor-type tags the factory can be handed: the one it knows and two it does not
SensorTypes == {RAPL, "Other", "Invalid"}

\* device paths handed to the PowerSensor3 factory
Devices == {"/dev/ttyACM0", "/dev/missing"}

\* channel indices handed to get_sensor_name
SensorIds == {-5, -1} \cup (0 .. MaxChannels)

\* the names of the device's channels, in snapshot order
DeviceNames == SubSeq(ChannelNames, 1, MaxChannels)

\* the names of the PowerSensor3 sensor's pairs
PairNames == SubSeq(<<"pair0", "pair1", "pair2", "pair3">>, 1, MaxChannels)

Out(op, backend, tag, idx, kind, err, name, joules, timestamp) ==
    [op |-> op, backend |-> backend, tag |-> tag, idx |-> idx, kind |-> kind,
     err |-> err, name |-> name, joules |-> joules, timestamp |-> timestamp]

Init ==
    /\ HandleInit
    /\ firstState = [joules |-> <<1>>, timestamp |-> 0]
    /\ secondState = [joules |-> <<1>>, timestamp |-> 0]
    /\ ret = NoRet

deltaVars == <<firstState, secondState, ret>>

\* the metered device: time passes, the cumulative counters grow
Tick ==
    /\ clock < MaxClock
    /\ clock' = clock + 1
    /\ \E d \in [1 .. MaxChannels -> 0 .. 1] :
           energy' = [i \in 1 .. MaxChannels |-> energy[i] + d[i]]
    /\ UNCHANGED <<pmt, ps3, calls, out, deltaVars>>

\* the factory with a default branch that falls back to the RAPL backend
create_with_fallback(sensor) ==
    /\ calls < MaxCalls
    /\ calls' = calls + 1
    /\ \/ /\ pmt' = [pmt EXCEPT !.live = @ + 1]
          /\ out' = Out("create", "pmt", sensor, 0, "ok", "", "", <<>>, 0)
       \/ /\ pmt' = pmt
          /\ out' = Out("create", "pmt", sensor, 0, "error", "BackendInitError",
                        "", <<>>, 0)
    /\ UNCHANGED <<ps3, clock, energy, deltaVars>>

\* std::unique_ptr<PMT> create(const SensorType sensor)
create(sensor) ==
    /\ calls < MaxCalls
    /\ calls' = calls + 1
    /\ IF sensor = RAPL
       THEN \/ /\ pmt' = [pmt EXCEPT !.live = @ + 1]
               /\ out' = Out("create", "pmt", sensor, 0, "ok", "", "", <<>>, 0)
            \/ /\ pmt' = pmt    \* rapl::Rapl::Create() throws
               /\ out' = Out("create", "pmt", sensor, 0, "error", "BackendInitError",
                             "", <<>>, 0)
       ELSE /\ pmt' = pmt
            /\ out' = Out("create", "pmt", sensor, 0, "error", "UnsupportedSensorType",
                          "", <<>>, 0)
    /\ UNCHANGED <<ps3, clock, energy, deltaVars>>

\* std::unique_ptr<State> read(PMT& device)
read ==
    /\ calls < MaxCalls
    /\ pmt.live > 0
    /\ calls' = calls + 1
    /\ pmt' = [pmt EXCEPT !.reads = @ + 1]
    /\ \/ out' = Out("read", "pmt", "", 0, "ok", "", "", energy, clock)
       \/ out' = Out("read", "pmt", "", 0, "error", "ReadError", "", <<>>, 0)
    /\ UNCHANGED <<ps3, clock, energy, deltaVars>>

\* get_sensor_name taking the snapshot first and checking the index afterwards
get_sensor_name_reads_first(sensor_id) ==
    /\ calls < MaxCalls
    /\ pmt.live > 0
    /\ calls' = calls + 1
    /\ pmt' = [pmt EXCEPT !.reads = @ + 1]
    /\ IF sensor_id < 0
       THEN out' = Out("get_sensor_name", "pmt", "", sensor_id, "error",
                       "InvalidChannelIndex", "", <<>>, 0)
       ELSE \/ \E n \in StateName(DeviceNames, sensor_id) :
                   out' = Out("get_sensor_name", "pmt", "", sensor_id,
                              IF n.ok THEN "ok" ELSE "crash", "", n.v, <<>>, 0)
            \/ out' = Out("get_sensor_name", "pmt", "", sensor_id, "error",
                          "ReadError", "", <<>>, 0)
    /\ UNCHANGED <<ps3, clock, energy, deltaVars>>

\* get_sensor_name reading the device twice: once for the count, once for the name
get_sensor_name_reads_twice(sensor_id) ==
    /\ calls < MaxCalls
    /\ pmt.live > 0
    /\ calls' = calls + 1
    /\ IF sensor_id < 0
       THEN /\ pmt' = pmt
            /\ out' = Out("get_sensor_name", "pmt", "", sensor_id, "error",
                          "InvalidChannelIndex", "", <<>>, 0)
       ELSE /\ pmt' = [pmt EXCEPT !.reads = @ + 2]
            /\ \/ \E n \in StateName(DeviceNames, sensor_id) :
                      out' = Out("get_sensor_name", "pmt", "", sensor_id,
                                 IF n.ok THEN "ok" ELSE "crash", "", n.v, <<>>, 0)
               \/ out' = Out("get_sensor_name", "pmt", "", sensor_id, "error",
                             "ReadError", "", <<>>, 0)
    /\ UNCHANGED <<ps3, clock, energy, deltaVars>>

\* rust::String get_sensor_name(PMT& device, const int sensor_id)
get_sensor_name(sensor_id) ==
    /\ calls < MaxCalls
    /\ pmt.live > 0
    /\ calls' = calls + 1
    /\ IF sensor_id < 0
       THEN /\ pmt' = pmt
            /\ out' = Out("get_sensor_name", "pmt", "", sensor_id, "error",
                          "InvalidChannelIndex", "", <<>>, 0)
       ELSE /\ pmt' = [pmt EXCEPT !.reads = @ + 1]    \* device.Read()
            /\ \/ \E n \in StateName(DeviceNames, sensor_id) :
                      out' = Out("get_sensor_name", "pmt", "", sensor_id,
                                 IF n.ok THEN "ok" ELSE "crash", "", n.v, <<>>, 0)
               \/ out' = Out("get_sensor_name", "pmt", "", sensor_id, "error",
                             "ReadError", "", <<>>, 0)
    /\ UNCHANGED <<ps3, clock, energy, deltaVars>>

\* std::unique_ptr<PowerSensor> powersensor3_rs::create(const rust::Str device)
powersensor3_rs_create(device) ==
    /\ calls < MaxCalls
    /\ calls' = calls + 1
    /\ \/ /\ ps3' = [ps3 EXCEPT !.live = @ + 1]
          /\ out' = Out("create", "ps3", device, 0, "ok", "", "", <<>>, 0)
       \/ /\ ps3' = ps3    \* the constructor throws; rethrown as runtime_error(e.what())
          /\ out' = Out("create", "ps3", device, 0, "error", "BackendInitError",
                        "", <<>>, 0)
    /\ UNCHANGED <<pmt, clock, energy, deltaVars>>

\* std::unique_ptr<State> powersensor3_rs::read(const PowerSensor& sensor)
powersensor3_rs_read ==
    /\ calls < MaxCalls
    /\ ps3.live > 0
    /\ calls' = calls + 1
    /\ ps3' = [ps3 EXCEPT !.reads = @ + 1]
    /\ \/ out' = Out("read", "ps3", "", 0, "ok", "", "", energy, clock)
       \/ out' = Out("read", "ps3", "", 0, "error", "ReadError", "", <<>>, 0)
    /\ UNCHANGED <<pmt, clock, energy, deltaVars>>

\* rust::String powersensor3_rs::get_sensor_name(const PowerSensor& sensor, int sensor_id)
powersensor3_rs_get_sensor_name(sensor_id) ==
    /\ calls < MaxCalls
    /\ ps3.live > 0
    /\ calls' = calls + 1
    /\ IF sensor_id < 0
       THEN /\ ps3' = ps3
            /\ out' = Out("get_sensor_name", "ps3", "", sensor_id, "error",
                          "InvalidChannelIndex", "", <<>>, 0)
       ELSE /\ ps3' = [ps3 EXCEPT !.lookups = @ + 1]    \* sensor.getPairName(sensor_id)
            /\ \E n \in StateName(PairNames, sensor_id) :
                   out' = Out("get_sensor_name", "ps3", "", sensor_id,
                              IF n.ok THEN "ok" ELSE "crash", "", n.v, <<>>, 0)
    /\ UNCHANGED <<pmt, clock, energy, deltaVars>>

Next ==
    \/ Tick
    \/ \E sensor \in SensorTypes : create(sensor)
    \/ read
    \/ \E sensor_id \in SensorIds : get_sensor_name(sensor_id)
    \/ \E device \in Devices : powersensor3_rs_create(device)
    \/ powersensor3_rs_read
    \/ \E sensor_id \in SensorIds : powersensor3_rs_get_sensor_name(sensor_id)

Spec == Init /\ [][Next]_vars

----------------------------------------------------------------------------
(* Properties of the delta functions, checked under DeltaSpec *)

SameCount == NrMeasurements(firstState) = NrMeasurements(secondState)

DeltaOps == {"Joules", "Watt", "watts", "calculate_watts"}

\* the value Joules returns for a selector that is negative or in range of both
JoulesValue(a, b, k) == (CHOOSE o \in Joules(a, b, k) : TRUE).val

\* sums in exact arithmetic
ExactAggregate(a, b) == ExactSum(b, 0) - ExactSum(a, 0)

Magnitude(a, b) == ExactSum(a, 0) + ExactSum(b, 0)

\* one unit in the last place of the total magnitude for every addition or
\* subtraction of an aggregate computation over a and b
Tolerance(a, b) == (NrMeasurements(a) + NrMeasurements(b)) * Ulp(Magnitude(a, b))

\* no sum over a and b leaves the range where every integer is representable
NoRounding(a, b) == Magnitude(a, b) < Pow2(Precision)

\* the sum of one snapshot's channels, in double arithmetic, left to right
RECURSIVE SumOf(_, _)
SumOf(s, n) == IF n = 0 THEN 0 ELSE FAdd(SumOf(s, n - 1), s.joules[n])

\* the sum over i = 0 .. n-1 of the single-channel results Joules(a, b, i)
RECURSIVE SumSingles(_, _, _)
SumSingles(a, b, n) ==
    IF n = 0 THEN 0 ELSE FAdd(SumSingles(a, b, n - 1), JoulesValue(a, b, n - 1))

\* C1 (as claimed): with both snapshots of N channels, a selector equal to N
\* ends in InvalidChannelIndex: no value is returned and channel N is not read.
C1_RejectsTopIndex ==
    (ret.op \in DeltaOps /\ SameCount /\ ret.pairID = NrMeasurements(firstState))
        => /\ ret.kind = "error"
           /\ ret.err = "InvalidChannelIndex"
           /\ ret.pairID \notin (ret.idxFirst \cup ret.idxSecond)

\* C2 (as claimed): when the end timestamp is not after the start timestamp,
\* Watt, watts and calculate_watts end in DivisionByNonPositiveInterval and
\* return no value.
C2_RejectsNonPositiveInterval ==
    (ret.op \in {"Watt", "watts", "calculate_watts"}
     /\ seconds(firstState, secondState) <= 0)
        => /\ ret.kind = "error"
           /\ ret.err = "DivisionByNonPositiveInterval"

\* C7 (as claimed): a Joules call whose selector is greater than the snapshot's
\* NrMeasurements ends in an error delivered to the caller, reads no channel
\* and returns no number.
C7_BoundFailurePropagates ==
    (ret.op = "Joules" /\ ret.pairID > NrMeasurements(firstState))
        => /\ ret.kind = "error"
           /\ ret.idxFirst = {}
           /\ ret.idxSecond = {}

\* C10 (as claimed): Joules rejects a non-negative selector at or beyond the
\* END snapshot's channel count as InvalidChannelIndex, whatever the start
\* snapshot's channel count is.
C10_ValidatesAgainstEnd ==
    (ret.op = "Joules" /\ ret.pairID >= NrMeasurements(secondState))
        => /\ ret.kind = "error"
           /\ ret.err = "InvalidChannelIndex"

\* C4 (as claimed): for a negative selector Joules returns exactly
\* (sum of end's channels) - (sum of start's channels).
C4_ExactDifferenceOfSums ==
    (ret.op = "Joules" /\ ret.pairID < 0)
        => /\ ret.kind = "value"
           /\ ret.val = FSub(SumOf(secondState, NrMeasurements(secondState)),
                             SumOf(firstState, NrMeasurements(firstState)))

\* C4 (amended): every negative selector runs Joules in aggregate mode: a
\* finite value is returned, every channel of each snapshot is read, the value
\* is the one Joules(start, end, -1) returns, and it is (sum of end) - (sum of
\* start) up to the rounding of the additions and subtractions performed:
\* exactly when nothing is rounded, within Tolerance otherwise.
C4_NegativeIsAggregate ==
    (ret.op = "Joules" /\ ret.pairID < 0)
        => /\ ret.kind = "value"
           /\ ret.cls = "finite"
           /\ ret.idxFirst = 0 .. NrMeasurements(firstState) - 1
           /\ ret.idxSecond = 0 .. NrMeasurements(secondState) - 1
           /\ \A o \in Joules(firstState, secondState, -1) :
                  o.kind = "value" /\ o.val = ret.val
           /\ Abs(ret.val - ExactAggregate(firstState, secondState))
                  <= Tolerance(firstState, secondState)
           /\ NoRounding(firstState, secondState)
                  => ret.val = ExactAggregate(firstState, secondState)

\* a call with selector -5 on snapshots of different channel counts whose
\* sums are rounded
C4_Witness ==
    /\ ret.op = "Joules"
    /\ ret.pairID = -5
    /\ ret.kind = "value"
    /\ ~SameCount
    /\ ret.val # ExactAggregate(firstState, secondState)

\* C5 (as claimed): with equal channel counts, Joules(a, b, -1) equals the sum
\* of the single-channel results Joules(a, b, i) over every index in range.
C5_AggregateEqualsSumOfSingles ==
    (ret.op = "Joules" /\ ret.pairID = -1 /\ SameCount)
        => ret.val = SumSingles(firstState, secondState, NrMeasurements(firstState))

\* C5 (amended): with equal channel counts, Joules(a, b, -1) and the sum of
\* the single-channel results agree up to floating-point rounding: exactly
\* when nothing is rounded, within Tolerance otherwise.
C5_AggregateNearSumOfSingles ==
    (ret.op = "Joules" /\ ret.pairID = -1 /\ SameCount)
        => LET sum == SumSingles(firstState, secondState, NrMeasurements(firstState))
           IN  /\ ret.kind = "value"
               /\ Abs(ret.val - sum) <= Tolerance(firstState, secondState)
               /\ NoRounding(firstState, secondState) => ret.val = sum

\* an aggregate call over MaxChannels channels with a non-zero result that
\* the sum of the single-channel results matches
C5_Witness ==
    /\ ret.op = "Joules"
    /\ ret.pairID = -1
    /\ SameCount
    /\ NrMeasurements(firstState) = MaxChannels
    /\ ret.val # 0
    /\ ret.val = SumSingles(firstState, secondState, NrMeasurements(firstState))

\* the snapshots b that can lie between a and c: same channel count
Between(a) == [joules : SeqsOfLen(JouleValues, NrMeasurements(a)), timestamp : {0}]

ValidSelector(k, a) == k < NrMeasurements(a)

\* C8 (as claimed): for snapshots a, b, c of one channel count and a valid
\* selector k, Joules(a, c, k) = Joules(a, b, k) + Joules(b, c, k), and
\* Joules(s, s, k) = 0.
C8_AdditiveAndReflexive ==
    (ret.op = "Joules" /\ SameCount /\ ValidSelector(ret.pairID, firstState))
        => /\ \A b \in Between(firstState) :
                  ret.val = FAdd(JoulesValue(firstState, b, ret.pairID),
                                 JoulesValue(b, secondState, ret.pairID))
           /\ firstState.joules = secondState.joules => ret.val = 0

Tolerance3(a, b, c) ==
    2 * (NrMeasurements(a) + NrMeasurements(b) + NrMeasurements(c))
      * Ulp(Magnitude(a, b) + ExactSum(c, 0))

\* C8 (amended): for snapshots a, b, c of one channel count and a valid
\* selector k, Joules(a, c, k) and Joules(a, b, k) + Joules(b, c, k) agree up
\* to floating-point rounding: exactly when nothing is rounded, within
\* Tolerance3 otherwise.  Joules(s, s, k) is exactly 0 for a single channel;
\* in aggregate mode it is 0 when nothing is rounded and within Tolerance of 0
\* otherwise.
C8_AdditiveWithinRounding ==
    (ret.op = "Joules" /\ SameCount /\ ValidSelector(ret.pairID, firstState))
        => /\ ret.kind = "value"
           /\ \A b \in Between(firstState) :
                  LET split == FAdd(JoulesValue(firstState, b, ret.pairID),
                                    JoulesValue(b, secondState, ret.pairID))
                  IN  /\ Abs(ret.val - split) <= Tolerance3(firstState, b, secondState)
                      /\ (NoRounding(firstState, secondState)
                          /\ NoRounding(b, b)) => ret.val = split
           /\ firstState.joules = secondState.joules
                  => /\ ret.pairID >= 0 => ret.val = 0
                     /\ Abs(ret.val) <= Tolerance(firstState, secondState)
                     /\ NoRounding(firstState, secondState) => ret.val = 0

\* a single-channel call that returns a non-zero delta which some b splits
\* exactly
C8_Witness ==
    /\ ret.op = "Joules"
    /\ SameCount
    /\ ret.pairID >= 0
    /\ ValidSelector(ret.pairID, firstState)
    /\ ret.val # 0
    /\ \E b \in Between(firstState) :
           /\ b.joules # firstState.joules
           /\ b.joules # secondState.joules
           /\ ret.val = FAdd(JoulesValue(firstState, b, ret.pairID),
                             JoulesValue(b, secondState, ret.pairID))

----------------------------------------------------------------------------
(* Properties of the handle operations, checked under Spec *)

\* the step is a wrapper call whose outcome is out'
Called(op) == calls' = calls + 1 /\ out'.op = op

InRange(idx) == idx >= 0 /\ idx < MaxChannels

NamesOf(backend) == IF backend = "pmt" THEN DeviceNames ELSE PairNames

\* C3: the factory returns a backend only for the RAPL tag; for every other
\* tag it fails with UnsupportedSensorType and no backend instance comes to
\* exist.
C3_UnknownTagIsRejected ==
    [][(Called("create") /\ out'.backend = "pmt")
          => /\ out'.kind = "ok" => (out'.tag = RAPL /\ pmt'.live = pmt.live + 1)
             /\ out'.tag # RAPL
                    => /\ out'.kind = "error"
                       /\ out'.err = "UnsupportedSensorType"
                       /\ pmt' = pmt
                       /\ ps3' = ps3]_vars

\* the factory has been called with an unknown tag after a backend was made
C3_Witness ==
    /\ out.op = "create"
    /\ out.backend = "pmt"
    /\ out.tag = "Invalid"
    /\ out.kind = "error"
    /\ pmt.live = 1

\* C6: in both wrappers get_sensor_name with a negative index fails with
\* InvalidChannelIndex, returns no name, and touches the backend in no way: no
\* sensor read and no name lookup is made.
C6_NegativeIndexIsRejectedFirst ==
    [][(Called("get_sensor_name") /\ out'.idx < 0)
          => /\ out'.kind = "error"
             /\ out'.err = "InvalidChannelIndex"
             /\ out'.name = ""
             /\ pmt' = pmt
             /\ ps3' = ps3]_vars

\* a negative index has been rejected by the PMT wrapper on a device that was
\* read before
C6_Witness ==
    /\ out.op = "get_sensor_name"
    /\ out.backend = "pmt"
    /\ out.idx < 0
    /\ out.kind = "error"
    /\ pmt.reads > 0

\* C9 (as claimed): in both wrappers every successful get_sensor_name with an
\* index >= 0 makes exactly one sensor read on its backend and returns the name
\* at that index of the snapshot.
C9_EveryLookupReads ==
    [][(Called("get_sensor_name") /\ out'.kind = "ok" /\ out'.idx >= 0)
          => /\ out'.backend = "pmt" => pmt'.reads = pmt.reads + 1
             /\ out'.backend = "ps3" => ps3'.reads = ps3.reads + 1
             /\ InRange(out'.idx) => out'.name = NamesOf(out'.backend)[out'.idx + 1]]_vars

\* C9 (amended): in the PMT wrapper every successful get_sensor_name with an
\* index >= 0 makes exactly one sensor read and, for an index below the channel
\* count, returns the name at that index of the fresh snapshot.  The
\* PowerSensor3 wrapper makes no sensor read: it returns getPairName(index) of
\* the sensor, one name lookup.
C9_OnlyPmtLookupReads ==
    [][(Called("get_sensor_name") /\ out'.kind = "ok" /\ out'.idx >= 0)
          => /\ out'.backend = "pmt"
                    => /\ pmt'.reads = pmt.reads + 1
                       /\ ps3' = ps3
             /\ out'.backend = "ps3"
                    => /\ ps3'.reads = ps3.reads
                       /\ ps3'.lookups = ps3.lookups + 1
                       /\ pmt' = pmt
             /\ InRange(out'.idx) => out'.name = NamesOf(out'.backend)[out'.idx + 1]]_vars

\* the PMT wrapper has returned the name of the last channel, its second read
C9_Witness ==
    /\ out.op = "get_sensor_name"
    /\ out.backend = "pmt"
    /\ out.kind = "ok"
    /\ out.idx = MaxChannels - 1
    /\ out.name = DeviceNames[MaxChannels]
    /\ pmt.reads = 2

====
